---- MODULE Spec2Model ----
(***************************************************************************)
(* SHOOT-THE-TARGET (src/AKSHAT_YADAV/SHOOT-THE-TARGET/game.js) as a state *)
(* machine: the module-level variables of the script are the state, and    *)
(* every event handler and the frame loop is one action.                   *)
(*                                                                         *)
(* Numbers.  The script computes with IEEE doubles.  Here every length and *)
(* velocity is an integer count of twentieths of a pixel (Px), so that     *)
(* GRAVITY = 0.35 and the speed epsilon 0.1 are exact; a product with 0.6  *)
(* or 0.25 and the square root of a length are truncated towards zero.     *)
(* Times are integer milliseconds.  The script uses the clock and          *)
(* lastShotTime only in the difference now - lastShotTime (game.js:273);   *)
(* the model keeps that difference, sinceShot, saturated above LOCKOUT_MS. *)
(***************************************************************************)
EXTENDS Integers, Sequences, FiniteSets, TLC

\* ------------------------------------------------------------------------
\* Units and arithmetic
\* ------------------------------------------------------------------------

\* n pixels in model units (twentieths of a pixel)
Px(n) == n * 20

\* a / b truncated towards zero (b > 0)
TDiv(a, b) == IF a >= 0 THEN a \div b ELSE -((-a) \div b)

Min(a, b) == IF a < b THEN a ELSE b
Max(a, b) == IF a > b THEN a ELSE b
\* the element of a singleton set; { F(x) : x \in {e} } computes e once
Only(S) == CHOOSE x \in S : TRUE

Abs(a) == IF a < 0 THEN -a ELSE a

RECURSIVE SqrtIter(_, _)
SqrtIter(n, x) ==
    LET y == (x + n \div x) \div 2
    IN  IF y >= x THEN x ELSE SqrtIter(n, y)

\* floor of the square root of n >= 0
ISqrt(n) == IF n = 0 THEN 0 ELSE SqrtIter(n, n)

\* ------------------------------------------------------------------------
\* Program constants (game.js:30-36)
\* ------------------------------------------------------------------------

GRAVITY == 7                \* 0.35 px per tick
BOUNCE_NUM == -3            \* BOUNCE = -0.6 = BOUNCE_NUM / BOUNCE_DEN
BOUNCE_DEN == 5
BALL_RADIUS == 300          \* 15 px
LOCKOUT_MS == 4500
MAX_SHOTS == 7
HITS_TO_WIN == 3
SPEED_EPS == 2              \* 0.1 px per tick (game.js:273)
MAX_PULL == 3000            \* 150 px (game.js:175)
SLING_X == 3000             \* 150 px (game.js:140)

NULL == [null |-> TRUE]

\* ------------------------------------------------------------------------
\* Vector (game.js:94-126)
\* ------------------------------------------------------------------------

Vector(x, y) == [x |-> x, y |-> y]

VecAdd(a, b) == Vector(a.x + b.x, a.y + b.y)

\* Math.hypot(x, y), truncated
VecLength(v) == ISqrt(v.x * v.x + v.y * v.y)

\* Vector.fromPoints(a, b) = b - a
FromPoints(a, b) == Vector(b.x - a.x, b.y - a.y)

TimesBounce_amplifies(v) == TDiv(v * (BOUNCE_NUM - BOUNCE_DEN), BOUNCE_DEN)

\* v *= BOUNCE
TimesBounce(v) == TDiv(v * BOUNCE_NUM, BOUNCE_DEN)

\* v *= Math.abs(BOUNCE)
TimesAbsBounce(v) == TDiv(v * Abs(BOUNCE_NUM), BOUNCE_DEN)

\* ------------------------------------------------------------------------
\* Levels (game.js:38-82); coordinates in pixels, converted by Rect
\* ------------------------------------------------------------------------

Rect(x, y, w, h, f) ==
    [x |-> Px(x), y |-> Px(y), w |-> Px(w), h |-> Px(h), isFloor |-> f]

levels ==
    << [ walls  |-> << Rect(400, 300, 20, 200, FALSE),
                       Rect(420, 380, 150, 20, TRUE),
                       Rect(550, 370, 20, 110, FALSE) >>,
         bombs  |-> << Rect(550, 340, 20, 20, FALSE) >>,
         target |-> Rect(700, 330, 40, 40, FALSE) ],
       [ walls  |-> << Rect(580, 240, 40, 200, FALSE),
                       Rect(450, 380, 50, 20, TRUE),
                       Rect(500, 400, 50, 20, FALSE),
                       Rect(550, 420, 50, 20, FALSE),
                       Rect(700, 420, 50, 20, TRUE),
                       Rect(650, 400, 50, 20, FALSE),
                       Rect(600, 380, 50, 20, FALSE),
                       Rect(550, 300, 200, 20, TRUE),
                       Rect(550, 260, 20, 40, FALSE),
                       Rect(730, 220, 20, 100, FALSE) >>,
         bombs  |-> << Rect(540, 220, 30, 30, FALSE) >>,
         target |-> Rect(640, 280, 20, 20, FALSE) ],
       [ walls  |-> << Rect(500, 420, 300, 20, TRUE),
                       Rect(520, 400, 40, 20, FALSE),
                       Rect(560, 380, 40, 20, FALSE),
                       Rect(600, 360, 40, 20, FALSE),
                       Rect(640, 340, 40, 20, FALSE),
                       Rect(680, 320, 40, 20, FALSE),
                       Rect(780, 280, 20, 160, FALSE) >>,
         bombs  |-> << Rect(750, 260, 30, 30, FALSE) >>,
         target |-> Rect(720, 380, 30, 30, FALSE) ] >>

\* levels[currentLevel] of the script (0-based index)
Level(i) == levels[i + 1]

\* ------------------------------------------------------------------------
\* circleVsAABB (game.js:128-134)
\* ------------------------------------------------------------------------

circleVsAABB_strict(c, r) ==
    LET cx == Max(r.x, Min(c.x, r.x + r.w))
        cy == Max(r.y, Min(c.y, r.y + r.h))
        dx == c.x - cx
        dy == c.y - cy
    IN  dx * dx + dy * dy < c.r * c.r

circleVsAABB(c, r) ==
    LET cx == Max(r.x, Min(c.x, r.x + r.w))
        cy == Max(r.y, Min(c.y, r.y + r.h))
        dx == c.x - cx
        dy == c.y - cy
    IN  dx * dx + dy * dy <= c.r * c.r

\* the circle the update function builds from the projectile's position
Ball(pos) == [x |-> pos.x, y |-> pos.y, r |-> BALL_RADIUS]

\* ------------------------------------------------------------------------
\* Bounds of the model and the inputs the environment supplies
\* ------------------------------------------------------------------------

\* milliseconds between two animation frames (a throttled frame loop)
FrameMs == 1500
\* a flight is followed until its trail holds this many positions
MaxTrail == 30

\* (innerWidth, innerHeight) of the window, in pixels
CanvasSizes == { <<1000, 600>>, <<720, 600>> }

\* pointer offsets (pixels) the user presses, moves to and releases at
DragPoints == { Vector(Px(150), Px(465)), Vector(Px(280), Px(475)),
                Vector(Px(0), Px(525)), Vector(Px(10), Px(505)),
                Vector(Px(0), Px(555)) }

LevelIndexes == 0 .. (Len(levels) - 1)

\* ------------------------------------------------------------------------
\* State (game.js:84-92, 161-162) and instrumentation
\* ------------------------------------------------------------------------

VARIABLES
    canvas,        \* [width, height] of the canvas, in pixels
    groundY,       \* y of the ground line
    slingStart,    \* launch anchor
    projectile,    \* NULL or [pos, vel, trail]
    sinceShot,     \* performance.now() - lastShotTime, saturated
    allowShoot,
    shotsTaken,
    gameOver,
    targetHit,
    currentLevel,
    hitCount,
    isDragging,
    dragEnd,       \* NULL or the last pointer position of the drag
    resetBtn,      \* resetBtn.style.display
    ev,            \* instrumentation: the handler that ran last
    launches,      \* instrumentation: accepted launches since the last reset
    hits,          \* instrumentation: responses applied by the last update
    touched,       \* instrumentation: shapes overlapped at the bomb test of
                   \* the last update
    bird,          \* the globals of ANGRY-BIRD-GAME: [canvas, groundY,
                   \* projectile, trail, isDragging, dragStart, dragEnd]
    calc,          \* the last function application made on inputs of its own
    load,          \* the evaluation of the top level of ANGRY-BIRD-GAME's
                   \* script: [pc, Vector, listeners, looping, error]
    chat,          \* the chat client, its requests in flight and the
                   \* backend's sessions
    shop           \* the globals and the document of ECOMMERCE-WEBSITE, and
                   \* main's position

vars == << canvas, groundY, slingStart, projectile, sinceShot, allowShoot,
           shotsTaken, gameOver, targetHit, currentLevel, hitCount, isDragging,
           dragEnd, resetBtn, ev, launches, hits, touched, bird, calc, load,
           chat, shop >>

\* resizeCanvas (game.js:136-141): groundY = height * (1 - groundFrac)
GroundYOf(h) == TDiv(Px(h) * 4, 5)

SlingStartOf(h) == Vector(SLING_X, GroundYOf(h) - BALL_RADIUS)

\* ------------------------------------------------------------------------
\* Launch (game.js:174-176)
\* ------------------------------------------------------------------------

\* the vector whose components are 0 / 0
NaNVector == [x |-> 0, y |-> 0, nan |-> TRUE]

NormalizeDivides_always(l) == TRUE

\* game.js:112: normalize divides by the length l only if (l > 0)
NormalizeDivides(l) == l > 0

\* v.normalize().scale(num / den), l being v.length() (game.js:110-122):
\* normalize divides the components by l or leaves v as it is
NormalizeScale(v, l, num, den) ==
    IF NormalizeDivides(l)
    THEN IF l = 0 THEN NaNVector
         ELSE Vector(TDiv(v.x * num, den * l), TDiv(v.y * num, den * l))
    ELSE Vector(TDiv(v.x * num, den), TDiv(v.y * num, den))

LaunchVelocity_noClamp(from, to) ==
    LET launch == FromPoints(from, to)
        l == VecLength(launch)
    IN  NormalizeScale(launch, l, l, 4)

\* launch.clone().normalize().scale(power * 0.25), power = min(|launch|, 150)
LaunchVelocity(from, to) ==
    LET launch == FromPoints(from, to)
        l == VecLength(launch)
        power == Min(l, MAX_PULL)
    IN  NormalizeScale(launch, l, power, 4)

LaunchTrail_twice(start) == << start, start >>

\* game.js:180 (and ANGRY-BIRD-GAME/game.js:111): the trail of a launched
\* projectile starts with a copy of the launch point
LaunchTrail(start) == << start >>

\* projectile.vel.length() < 0.1
SpeedBelowEps(v) == v.x * v.x + v.y * v.y < SPEED_EPS * SPEED_EPS

\* ------------------------------------------------------------------------
\* update (game.js:271-320), step by step
\* ------------------------------------------------------------------------

Integrate_explicitEuler(p) ==
    LET v == Vector(p.vel.x, p.vel.y + GRAVITY)
    IN  [p EXCEPT !.vel = v, !.pos = VecAdd(p.pos, p.vel)]

\* game.js:277-278: vel.y += GRAVITY; pos.add(vel)
Integrate(p) ==
    LET v == Vector(p.vel.x, p.vel.y + GRAVITY)
    IN  [p EXCEPT !.vel = v, !.pos = VecAdd(p.pos, v)]

\* game.js:280
BelowGround(p, gY) == p.pos.y + BALL_RADIUS > gY

\* game.js:281-283
GroundResponse(p, gY) ==
    [p EXCEPT !.pos.y = gY - BALL_RADIUS,
              !.vel.y = TimesBounce(@),
              !.vel.x = TimesAbsBounce(@)]

\* game.js:277-284: the projectile as the bomb loop tests it
Moved(p, gY) ==
    LET p1 == Integrate(p)
    IN  IF BelowGround(p1, gY) THEN GroundResponse(p1, gY) ELSE p1

\* game.js:285-286: the bombs the projectile overlaps
BombsHit(p, lvl) ==
    { i \in 1..Len(lvl.bombs) : circleVsAABB(Ball(p.pos), lvl.bombs[i]) }

\* the walls the projectile overlaps
WallsOverlapped(p, lvl) ==
    { i \in 1..Len(lvl.walls) : circleVsAABB(Ball(p.pos), lvl.walls[i]) }

BombEndsRound_afterWalls(p, lvl) ==
    BombsHit(p, lvl) # {} /\ WallsOverlapped(p, lvl) = {}

\* game.js:285-291: a bomb ends the round before walls and target are looked at
BombEndsRound(p, lvl) == BombsHit(p, lvl) # {}

\* game.js:294-303: the response to wall w
WallResponse(p, w) ==
    IF w.isFloor
    THEN [p EXCEPT !.pos.y = w.y - BALL_RADIUS,
                   !.vel.y = TimesBounce(@),
                   !.vel.x = TimesAbsBounce(@)]
    ELSE [p EXCEPT !.vel.x = -@,
                   !.vel.y = TimesBounce(@),
                   !.pos.x = IF p.pos.x < w.x THEN w.x - BALL_RADIUS
                                              ELSE w.x + w.w + BALL_RADIUS]

\* game.js:292-305: lvl.walls.forEach from wall i on; acc.p is the projectile
\* so far and acc.hit lists the walls whose response was applied
RECURSIVE WallsFrom(_, _, _)
WallsFrom(acc, walls, i) ==
    IF i > Len(walls) THEN acc
    ELSE Only({ IF circleVsAABB(Ball(a.p.pos), walls[i])
                THEN WallsFrom([p   |-> WallResponse(a.p, walls[i]),
                                hit |-> Append(a.hit, <<"wall", i>>)], walls, i + 1)
                ELSE WallsFrom(a, walls, i + 1) : a \in {acc} })

\* the shapes of lvl that a ball at pos overlaps
Overlapped(pos, lvl) ==
    { <<"bomb", i>> : i \in { j \in 1..Len(lvl.bombs) : circleVsAABB(Ball(pos), lvl.bombs[j]) } }
    \cup { <<"wall", i>> : i \in { j \in 1..Len(lvl.walls) : circleVsAABB(Ball(pos), lvl.walls[j]) } }
    \cup { <<"target", 0>> : i \in { j \in {0} : circleVsAABB(Ball(pos), lvl.target) } }

\* game.js:307
TargetHit(p, lvl) == circleVsAABB(Ball(p.pos), lvl.target)

\* game.js:277-305: the projectile as the target test sees it
AtTargetTest(p, gY, lvl) ==
    WallsFrom([p |-> Moved(p, gY), hit |-> << >>], lvl.walls, 1).p

WinReached_strict(h) == h > HITS_TO_WIN

\* game.js:309: the win threshold, tested on the incremented hitCount
WinReached(h) == h >= HITS_TO_WIN

TargetOutcome_keepsBall(st, p) ==
    [st EXCEPT !.hitCount = @ + 1,
               !.targetHit = IF WinReached(st.hitCount + 1) THEN TRUE ELSE @,
               !.gameOver = IF WinReached(st.hitCount + 1) THEN TRUE ELSE @,
               !.projectile = IF WinReached(st.hitCount + 1) THEN NULL ELSE p]

\* game.js:308-314: the response to a target hit, on the state record st of
\* update; p is the projectile that hit
TargetOutcome(st, p) ==
    [st EXCEPT !.hitCount = @ + 1,
               !.targetHit = IF WinReached(st.hitCount + 1) THEN TRUE ELSE @,
               !.gameOver = IF WinReached(st.hitCount + 1) THEN TRUE ELSE @,
               !.projectile = NULL]

OutOfBounds_rightOnly(p, cv) ==
    p.pos.x > Px(cv.width) \/ p.pos.y > Px(cv.height)

\* game.js:317
OutOfBounds(p, cv) ==
    p.pos.x < 0 \/ p.pos.x > Px(cv.width) \/ p.pos.y > Px(cv.height)

ShootReenabled_noLockout(p, dt) == p = NULL \/ SpeedBelowEps(p.vel)

\* game.js:273: the conditions that re-enable shooting, dt = now - lastShotTime
ShootReenabled(p, dt) ==
    p = NULL \/ SpeedBelowEps(p.vel) \/ dt > LOCKOUT_MS

\* now - lastShotTime, kept exact up to LOCKOUT_MS
Saturate(dt) == IF dt > LOCKOUT_MS THEN LOCKOUT_MS + 1 ELSE dt

Simulated_anyRound(p, over) == p # NULL

\* game.js:276: the projectile is simulated in this call
Simulated(p, over) == p # NULL /\ ~over

\* game.js:306-318: target test, trail and bounds test; at is the state
\* record of update, ws the result of the wall loop
AfterWalls(at, ws, lvl) ==
    IF TargetHit(ws.p, lvl)
    THEN [TargetOutcome(at, ws.p) EXCEPT
                    !.hits = Append(ws.hit, <<"target", 0>>)]
    ELSE
    LET p4 == [ws.p EXCEPT !.trail = Append(@, ws.p.pos)]
    IN  IF OutOfBounds(p4, canvas)
        THEN [at EXCEPT !.projectile = NULL,
                        !.hits = Append(ws.hit, <<"out", 0>>)]
        ELSE [at EXCEPT !.projectile = p4, !.hits = ws.hit]

\* game.js:285-318: bomb loop and what follows it; p2 is the moved
\* projectile, h2 the ground response if one was applied
AfterMove(same, p2, h2, lvl) ==
    LET bs == BombsHit(p2, lvl)
    IN  Only({ IF BombEndsRound(p2, lvl)
               THEN [at EXCEPT !.gameOver = TRUE, !.projectile = NULL,
                               !.hits = Append(h2, <<"bomb", CHOOSE i \in bs : \A j \in bs : i <= j>>)]
               ELSE Only({ AfterWalls(at, ws, lvl) :
                           ws \in { WallsFrom([p |-> p2, hit |-> h2], lvl.walls, 1) } }) :
               at \in { [same EXCEPT !.touched = Overlapped(p2.pos, lvl)] } })

\* The state update() leaves behind when it runs dt after the last launch:
\* [projectile, gameOver, targetHit, hitCount, allowShoot, hits, touched]
update(dt) ==
    LET allow == IF ShootReenabled(projectile, dt)
                 THEN TRUE ELSE allowShoot
        lvl == Level(currentLevel)
        same == [projectile |-> projectile, gameOver |-> gameOver,
                 targetHit |-> targetHit, hitCount |-> hitCount,
                 allowShoot |-> allow, hits |-> << >>, touched |-> {}]
        h2 == IF BelowGround(Integrate(projectile), groundY)
              THEN << <<"ground", 0>> >> ELSE << >>
    IN  IF ~Simulated(projectile, gameOver) THEN same
        ELSE Only({ AfterMove(same, p2, h2, lvl) :
                    p2 \in { Moved(projectile, groundY) } })

\* render (game.js:259-268): the part that changes state
render(over, btn) == IF over THEN "block" ELSE btn

\* ------------------------------------------------------------------------
\* ANGRY-BIRD-GAME (ANGRY-BIRD-GAME/game.js); GRAVITY, BALL_RADIUS and the
\* pull limit 150 have the values they have in SHOOT-THE-TARGET
\* ------------------------------------------------------------------------

TRAIL_MAX == 100
\* x of the launch pad (game.js:30)
PAD_X == 2400
\* pointerdown grabs the ball within BALL_RADIUS + 10 of its centre
GRAB_RADIUS == 500

\* (innerWidth, innerHeight) of the window, in pixels
BirdCanvasSizes == { <<1000, 600>> }

\* pointer offsets (pixels) of the pointer events
BirdPoints == { Vector(Px(120), Px(465)), Vector(Px(130), Px(475)),
                Vector(Px(120), Px(595)), Vector(Px(60), Px(525)),
                Vector(Px(500), Px(300)) }

\* game.js:26: canvas.height - Math.floor(canvas.height * 0.2)
birdGroundYOf(h) == Px(h - (h \div 5))

\* game.js:29-33, 144-148: the ball at rest on the launch pad
birdRest(gY) ==
    [pos |-> Vector(PAD_X, gY - BALL_RADIUS), vel |-> Vector(0, 0),
     r |-> BALL_RADIUS]

\* The globals as the top level of the script assigns them (game.js:15-20,
\* 81-83) with resizeCanvas (game.js:23-36) run for a window of size s
birdLoaded(s) ==
    [canvas     |-> [width |-> s[1], height |-> s[2]],
     groundY    |-> birdGroundYOf(s[2]),
     projectile |-> birdRest(birdGroundYOf(s[2])),
     trail      |-> << >>,
     isDragging |-> FALSE,
     dragStart  |-> NULL,
     dragEnd    |-> NULL]

\* !projectile.vel.x && !projectile.vel.y
AtRest(p) == p.vel.x = 0 /\ p.vel.y = 0

\* game.js:123-131
birdCircleVsAABB(circle, rect) ==
    LET closestX == Max(rect.x, Min(circle.x, rect.x + rect.w))
        closestY == Max(rect.y, Min(circle.y, rect.y + rect.h))
        dx == circle.x - closestX
        dy == circle.y - closestY
    IN  (dx * dx + dy * dy) <= (circle.r * circle.r)

\* game.js:103-105: launchVec.clone().normalize().scale(power * 0.25),
\* launchVec = fromPoints(dragEnd, dragStart), power = min(|launchVec|, 150)
birdLaunchVelocity(dEnd, dStart) ==
    LET launchVec == FromPoints(dEnd, dStart)
        l == VecLength(launchVec)
        power == Min(l, MAX_PULL)
    IN  NormalizeScale(launchVec, l, power, 4)

TrailPush_dropsNewest(trail, pos) ==
    LET t == Append(trail, pos)
    IN  IF Len(t) > TRAIL_MAX THEN SubSeq(t, 1, TRAIL_MAX) ELSE t

\* game.js:138-139: trail.push(pos); if (trail.length > TRAIL_MAX) trail.shift()
TrailPush(trail, pos) ==
    LET t == Append(trail, pos)
    IN  IF Len(t) > TRAIL_MAX THEN Tail(t) ELSE t

\* game.js:141-142: the ball left the canvas or reached the ground
birdLanded(b, pos) ==
    \/ pos.x < 0 \/ pos.x > Px(b.canvas.width)
    \/ pos.y > Px(b.canvas.height)
    \/ pos.y > b.groundY - BALL_RADIUS + Px(2)

birdMoved_keepsTrail(b, vel, pos) ==
    IF birdLanded(b, pos)
    THEN [b EXCEPT !.projectile = birdRest(b.groundY)]
    ELSE [b EXCEPT !.projectile = [pos |-> pos, vel |-> vel, r |-> BALL_RADIUS],
                   !.trail = TrailPush(b.trail, pos)]

\* game.js:136-150: the tick of a moving ball, vel being its velocity with
\* gravity added and pos the position it moves to
birdMoved(b, vel, pos) ==
    IF birdLanded(b, pos)
    THEN [b EXCEPT !.projectile = birdRest(b.groundY), !.trail = << >>]
    ELSE [b EXCEPT !.projectile = [pos |-> pos, vel |-> vel, r |-> BALL_RADIUS],
                   !.trail = TrailPush(b.trail, pos)]

\* game.js:133-153: the globals update() leaves behind
birdUpdated(b) ==
    IF b.projectile # NULL /\ ~AtRest(b.projectile)
    THEN Only({ Only({ birdMoved(b, vel, pos) :
                       pos \in { VecAdd(b.projectile.pos, vel) } }) :
                vel \in { Vector(b.projectile.vel.x,
                                 b.projectile.vel.y + GRAVITY) } })
    ELSE b

\* the variables of SHOOT-THE-TARGET but ev
shootVars == << canvas, groundY, slingStart, projectile, sinceShot,
                allowShoot, shotsTaken, gameOver, targetHit, currentLevel,
                hitCount, isDragging, dragEnd, resetBtn, launches, hits,
                touched >>

\* game.js:23-36: the window is resized to s
birdResizeCanvas(s) ==
    /\ ev' = "birdResize"
    /\ bird' = [ IF bird.projectile = NULL \/ AtRest(bird.projectile)
                 THEN [bird EXCEPT !.projectile = birdRest(birdGroundYOf(s[2])),
                                   !.trail = << >>]
                 ELSE bird
                 EXCEPT !.canvas = [width |-> s[1], height |-> s[2]],
                        !.groundY = birdGroundYOf(s[2]) ]
    /\ UNCHANGED << shootVars, calc, load, chat, shop >>

\* game.js:88: the pointer is on the ball and the ball is at rest
CanGrab(e) ==
    LET dx == e.x - bird.projectile.pos.x
        dy == e.y - bird.projectile.pos.y
    IN  dx * dx + dy * dy <= GRAB_RADIUS * GRAB_RADIUS /\ AtRest(bird.projectile)

\* game.js:85-93
birdPointerdown(e) ==
    /\ ev' = "birdPointerdown"
    /\ bird' = IF CanGrab(e)
               THEN [bird EXCEPT !.isDragging = TRUE,
                                 !.dragStart = bird.projectile.pos,
                                 !.dragEnd = bird.projectile.pos]
               ELSE bird
    /\ UNCHANGED << shootVars, calc, load, chat, shop >>

\* game.js:94-98
birdPointermove(e) ==
    /\ ev' = "birdPointermove"
    /\ bird' = IF bird.isDragging THEN [bird EXCEPT !.dragEnd = e] ELSE bird
    /\ UNCHANGED << shootVars, calc, load, chat, shop >>

\* game.js:99-114
birdPointerup(e) ==
    /\ ev' = "birdPointerup"
    /\ bird' = IF bird.isDragging
               THEN [bird EXCEPT
                       !.dragEnd = e,
                       !.projectile = [pos |-> bird.dragStart,
                                       vel |-> birdLaunchVelocity(e, bird.dragStart),
                                       r   |-> BALL_RADIUS],
                       !.trail = LaunchTrail(bird.dragStart),
                       !.isDragging = FALSE]
               ELSE bird
    /\ UNCHANGED << shootVars, calc, load, chat, shop >>

\* game.js:115-117
birdPointerleave ==
    /\ ev' = "birdPointerleave"
    /\ bird' = [bird EXCEPT !.isDragging = FALSE]
    /\ UNCHANGED << shootVars, calc, load, chat, shop >>

\* game.js:220-226: one animation frame; update() is the part of it that
\* changes state
gameLoop ==
    /\ ev' = "birdUpdate"
    /\ bird' = birdUpdated(bird)
    /\ UNCHANGED << shootVars, calc, load, chat, shop >>

\* ------------------------------------------------------------------------
\* The top level of ANGRY-BIRD-GAME's script, statement by statement
\* ------------------------------------------------------------------------

\* the listeners the script registers (game.js:37, 85, 94, 99, 115)
BirdListeners == { "resize", "pointerdown", "pointermove", "pointerup",
                   "pointerleave" }

\* the script evaluated to its end: class Vector initialised, every listener
\* registered, gameLoop running
LoadComplete ==
    [pc |-> "done", Vector |-> TRUE, listeners |-> BirdListeners,
     looping |-> TRUE, error |-> "none"]

\* (innerWidth, innerHeight) of the window while the script loads and after
LoadSizes ==
    { <<w, h>> : w \in {320, 640, 800, 1000, 1280, 1920},
                 h \in {480, 600, 720, 1080} }

\* the globals as declared at game.js:15-20 and 81-83, before line 37 runs;
\* the canvas element has the size of s
birdDeclared(s) ==
    [canvas     |-> [width |-> s[1], height |-> s[2]],
     groundY    |-> 0,
     projectile |-> NULL,
     trail      |-> << >>,
     isDragging |-> FALSE,
     dragStart  |-> NULL,
     dragEnd    |-> NULL]

\* line 37 is the next statement to evaluate: class Vector (game.js:41) is
\* declared but not initialised, nothing is registered
LoadStarted ==
    [pc |-> "listenResize", Vector |-> FALSE, listeners |-> {},
     looping |-> FALSE, error |-> "none"]

\* new Vector(...) evaluates only once the class declaration at game.js:41
\* has been evaluated; before, the reference throws a ReferenceError
VectorUsable(ready) == ready

\* game.js:23-36: resizeCanvas() in a window of size s, class Vector being
\* initialised or not; threw tells whether new Vector (game.js:30) threw
resizeCanvasRun(b, s, ready) ==
    LET b1 == [b EXCEPT !.canvas = [width |-> s[1], height |-> s[2]],
                        !.groundY = birdGroundYOf(s[2])]
    IN  IF b.projectile = NULL \/ AtRest(b.projectile)
        THEN IF VectorUsable(ready)
             THEN [bird  |-> [b1 EXCEPT !.projectile = birdRest(b1.groundY),
                                        !.trail = << >>],
                   threw |-> FALSE]
             ELSE [bird |-> b1, threw |-> TRUE]
        ELSE [bird |-> b1, threw |-> FALSE]

\* the top-level statement after the one at pc
LoadAfter(pc) ==
    CASE pc = "listenResize"  -> "callResize"
      [] pc = "callResize"    -> "classVector"
      [] pc = "classVector"   -> "listenPointer"
      [] pc = "listenPointer" -> "gameLoop"
      [] pc = "gameLoop"      -> "done"

\* The next top-level statement of the script is evaluated, in a window of
\* size s; an exception that nothing catches ends the evaluation
scriptStep(s) ==
    /\ load.pc \notin {"done", "failed"}
    /\ ev' = "birdLoad"
    /\ \E r \in { resizeCanvasRun(bird, s, load.Vector) } :
         CASE load.pc = "listenResize" ->
                \* game.js:37
                /\ load' = [load EXCEPT !.pc = LoadAfter(@),
                                        !.listeners = @ \cup {"resize"}]
                /\ bird' = bird
           [] load.pc = "callResize" ->
                \* game.js:38
                /\ bird' = r.bird
                /\ load' = IF r.threw
                           THEN [load EXCEPT !.pc = "failed",
                                             !.error = "ReferenceError"]
                           ELSE [load EXCEPT !.pc = LoadAfter(@)]
           [] load.pc = "classVector" ->
                \* game.js:41-78
                /\ load' = [load EXCEPT !.pc = LoadAfter(@), !.Vector = TRUE]
                /\ bird' = bird
           [] load.pc = "listenPointer" ->
                \* game.js:85-117
                /\ load' = [load EXCEPT !.pc = LoadAfter(@),
                                        !.listeners = @ \cup BirdListeners]
                /\ bird' = bird
           [] load.pc = "gameLoop" ->
                \* game.js:226
                /\ load' = [load EXCEPT !.pc = LoadAfter(@), !.looping = TRUE]
                /\ bird' = birdUpdated(bird)
    /\ UNCHANGED << shootVars, calc, chat, shop >>

\* the script's evaluation is over, events are dispatched
Dispatching == load.pc \in {"done", "failed"}

\* the window is resized to s: the listener of game.js:37 runs if registered
windowResize(s) ==
    /\ Dispatching
    /\ ev' = "birdResize"
    /\ bird' = IF "resize" \in load.listeners
               THEN resizeCanvasRun(bird, s, load.Vector).bird
               ELSE bird
    /\ load' = IF "resize" \in load.listeners
                  /\ resizeCanvasRun(bird, s, load.Vector).threw
               THEN [load EXCEPT !.error = "ReferenceError"]
               ELSE load
    /\ UNCHANGED << shootVars, calc, chat, shop >>

\* the globals after a canvas pointer event of the given type at e: those
\* the handler leaves behind if one is registered (game.js:85-117)
PointerDispatched(type, e) ==
    IF type \notin load.listeners THEN bird
    ELSE CASE type = "pointerdown" ->
                IF CanGrab(e)
                THEN [bird EXCEPT !.isDragging = TRUE,
                                  !.dragStart = bird.projectile.pos,
                                  !.dragEnd = bird.projectile.pos]
                ELSE bird
           [] type = "pointermove" ->
                IF bird.isDragging THEN [bird EXCEPT !.dragEnd = e] ELSE bird
           [] type = "pointerup" ->
                IF bird.isDragging
                THEN [bird EXCEPT
                        !.dragEnd = e,
                        !.projectile = [pos |-> bird.dragStart,
                                        vel |-> birdLaunchVelocity(e, bird.dragStart),
                                        r   |-> BALL_RADIUS],
                        !.trail = LaunchTrail(bird.dragStart),
                        !.isDragging = FALSE]
                ELSE bird
           [] type = "pointerleave" -> [bird EXCEPT !.isDragging = FALSE]

\* the value ev takes for a pointer event of the canvas
PointerEv(type) ==
    CASE type = "pointerdown"  -> "birdPointerdown"
      [] type = "pointermove"  -> "birdPointermove"
      [] type = "pointerup"    -> "birdPointerup"
      [] type = "pointerleave" -> "birdPointerleave"

\* a pointer event of the canvas
canvasPointer(type, e) ==
    /\ Dispatching
    /\ ev' = PointerEv(type)
    /\ bird' = PointerDispatched(type, e)
    /\ UNCHANGED << shootVars, calc, load, chat, shop >>

\* ------------------------------------------------------------------------
\* CHAT-APP (CHAT-APP/FRONTEND/script.js): the client, its requests and the
\* backend that answers them
\* ------------------------------------------------------------------------

\* the user starts no request once this many were issued
MaxRequests == 5
\* sessions the backend holds before the user is kept from creating more
MaxSessions == 2
\* sessions the backend may hold when the page is opened
MaxStored == 2

\* this.currentSessionId = null
NoSession == 0

\* the messages GET /chat/history returns for session sid after k exchanges
RECURSIVE HistoryOf(_, _)
HistoryOf(sid, k) ==
    IF k = 0 THEN << >>
    ELSE HistoryOf(sid, k - 1)
         \o << [role |-> "user", sid |-> sid], [role |-> "assistant", sid |-> sid] >>

\* the session ids GET /chat/sessions returns when the backend holds the
\* sessions 1..k, the most recent first
RECURSIVE SessionList(_)
SessionList(k) == IF k = 0 THEN << >> ELSE << k >> \o SessionList(k - 1)

\* script.js:266-276: clearMessages() and showWelcomeMessage()
WelcomeView == [welcome |-> TRUE, msgs |-> << >>, typing |-> FALSE]

\* script.js:211-222: renderMessages(messages)
renderMessages(messages) ==
    [welcome |-> (Len(messages) = 0), msgs |-> messages, typing |-> FALSE]

\* fetch(...): c with a request of the given kind sent; by names the caller
\* that awaits it ("init" for initialize, "user" for a handler)
Fetch(c, kind, sid, by) ==
    [c EXCEPT !.n = @ + 1,
              !.requests = @ \cup { [id |-> c.n + 1, kind |-> kind, sid |-> sid,
                                     by |-> by, phase |-> "sent", data |-> << >>] }]

\* script.js:2-12, 53-56, 86-87: the client after new ChatApp(), which runs
\* initialize() up to the fetch of testConnection; the backend holds stored
\* sessions of one exchange each
ChatStarted(stored) ==
    Fetch([currentSessionId |-> NoSession,
           isTyping   |-> FALSE,
           sessions   |-> << >>,
           view       |-> [welcome |-> FALSE, msgs |-> << >>, typing |-> FALSE],
           shown      |-> NoSession,
           input      |-> "",
           disabled   |-> TRUE,
           toast      |-> FALSE,
           loading    |-> TRUE,
           init       |-> "running",
           n          |-> 0,
           requests   |-> {},
           count      |-> stored,
           exchanges  |-> [sid \in 1..(MaxSessions + MaxStored + 1) |->
                             IF sid <= stored THEN 1 ELSE 0]],
          "test", NoSession, "init")

ChatConstructed == ChatStarted(0)

\* script.js:82-84: initialize() returns through its finally block
InitOver(c, by, how) ==
    IF by = "init" THEN [c EXCEPT !.loading = FALSE, !.init = how] ELSE c

\* script.js:327-334
showError(c) == [c EXCEPT !.toast = TRUE]

\* script.js:132-144: selectSession(sessionId) up to the fetch of
\* loadChatHistory
selectSessionCall(c, sid, by) ==
    Fetch([c EXCEPT !.currentSessionId = sid], "history", sid, by)

\* script.js:107-116: createNewSession() up to its fetch
createNewSessionCall(c, by) == Fetch(c, "create", NoSession, by)

\* script.js:56-59, 77-84, 93-95: initialize() after testConnection()
AfterTest(c, ok) ==
    IF ok
    THEN Fetch([c EXCEPT !.disabled = FALSE], "sessions", NoSession, "init")
    ELSE InitOver([showError(c) EXCEPT !.disabled = FALSE], "init", "failed")

\* script.js:96-104, 62-69: loadSessions() after its fetch, then
\* initialize() up to the next fetch
AfterSessions(c, r, ok) ==
    LET c1 == IF ok THEN [c EXCEPT !.sessions = r.data] ELSE c
    IN  IF Len(c1.sessions) = 0
        THEN createNewSessionCall(c1, "init")
        ELSE selectSessionCall(c1, c1.sessions[1], "init")

\* script.js:118-130: createNewSession() after its fetch
AfterCreate(c, r, ok) ==
    InitOver(IF ok
             THEN [c EXCEPT !.currentSessionId = r.data[1],
                            !.sessions = << r.data[1] >> \o @,
                            !.view = WelcomeView,
                            !.shown = r.data[1]]
             ELSE showError(c),
             r.by, "done")

\* script.js:145-152: loadChatHistory() after its fetch
AfterHistory(c, r, ok) ==
    InitOver(IF ok
             THEN [c EXCEPT !.view = renderMessages(HistoryOf(r.sid, r.data[1])),
                            !.shown = r.sid]
             ELSE showError(c),
             r.by, "done")

AfterChat_keepsTyping(c, r, ok) ==
    LET c1 == IF ok
              THEN [c EXCEPT !.view.typing = FALSE,
                             !.view.msgs = Append(@, [role |-> "assistant",
                                                      sid |-> r.sid])]
              ELSE showError([c EXCEPT !.view.typing = FALSE])
    IN  IF ok THEN [c1 EXCEPT !.isTyping = FALSE, !.disabled = FALSE] ELSE c1

\* script.js:178-191: sendMessage() after its fetch
AfterChat(c, r, ok) ==
    LET c1 == IF ok
              THEN [c EXCEPT !.view.typing = FALSE,
                             !.view.msgs = Append(@, [role |-> "assistant",
                                                      sid |-> r.sid])]
              ELSE showError([c EXCEPT !.view.typing = FALSE])
    IN  [c1 EXCEPT !.isTyping = FALSE, !.disabled = FALSE]

\* the code that awaits request r runs on, the fetch having succeeded or not
Resumed(c, r, ok) ==
    CASE r.kind = "test"     -> AfterTest(c, ok)
      [] r.kind = "sessions" -> AfterSessions(c, r, ok)
      [] r.kind = "create"   -> AfterCreate(c, r, ok)
      [] r.kind = "history"  -> AfterHistory(c, r, ok)
      [] r.kind = "chat"     -> AfterChat(c, r, ok)

\* the backend's answer to request r (FRONTEND README, API Endpoints Used)
\* and the backend state after it
Served(c, r) ==
    CASE r.kind = "test"     -> [c |-> c, data |-> << >>]
      [] r.kind = "sessions" -> [c |-> c, data |-> SessionList(c.count)]
      [] r.kind = "create"   -> [c |-> [c EXCEPT !.count = @ + 1],
                                 data |-> << c.count + 1 >>]
      [] r.kind = "history"  -> [c |-> c, data |-> << c.exchanges[r.sid] >>]
      [] r.kind = "chat"     -> [c |-> [c EXCEPT !.exchanges[r.sid] = @ + 1],
                                 data |-> << >>]

\* the chat actions leave the games and the function applications alone
chatFrame == UNCHANGED << shootVars, bird, calc, load, shop >>

\* the backend handles a request
serve ==
    /\ \E r \in { q \in chat.requests : q.phase = "sent" } :
         \E sv \in { Served(chat, r) } :
            chat' = [sv.c EXCEPT !.requests =
                        (@ \ {r}) \cup { [r EXCEPT !.phase = "served",
                                                   !.data = sv.data] }]
    /\ ev' = "serve"
    /\ chatFrame

\* the response to a request reaches the client with response.ok
respond ==
    /\ \E r \in { q \in chat.requests : q.phase = "served" } :
         chat' = Resumed([chat EXCEPT !.requests = @ \ {r}], r, TRUE)
    /\ ev' = "respond"
    /\ chatFrame

\* a fetch rejects or its response is not ok, before or after the backend
\* handled the request
fetchFails ==
    /\ \E r \in chat.requests :
         chat' = Resumed([chat EXCEPT !.requests = @ \ {r}], r, FALSE)
    /\ ev' = "fetchFails"
    /\ chatFrame

\* script.js:59, 81: enableInterface() has run, testConnection() being over
InterfaceEnabled == \A q \in chat.requests : q.kind # "test"

\* script.js:28: click on New Chat
newChatClick ==
    /\ InterfaceEnabled
    /\ chat.n < MaxRequests
    /\ chat.count + Cardinality({ q \in chat.requests :
                                   q.kind = "create" /\ q.phase = "sent" })
         < MaxSessions
    /\ chat' = createNewSessionCall(chat, "user")
    /\ ev' = "newChat"
    /\ chatFrame

\* script.js:206: click on a session of the sidebar
sessionClick ==
    /\ chat.n < MaxRequests
    /\ \E i \in 1..Len(chat.sessions) :
         chat' = selectSessionCall(chat, chat.sessions[i], "user")
    /\ ev' = "selectSession"
    /\ chatFrame

\* messageInput.value becomes a text or blanks (script.js:156 trims it)
typeMessage ==
    /\ \E text \in {"", "hello"} : chat' = [chat EXCEPT !.input = text]
    /\ chat'.input # chat.input
    /\ ev' = "type"
    /\ chatFrame

sendAccepted_whileTyping(c) == c.input # "" /\ c.currentSessionId # NoSession

\* script.js:157: the guard of sendMessage
sendAccepted(c) ==
    ~(c.input = "" \/ c.isTyping \/ c.currentSessionId = NoSession)

\* script.js:155-176: a call of sendMessage(), up to its fetch
sendMessage ==
    /\ chat.n < MaxRequests
    /\ chat' = IF sendAccepted(chat)
               THEN Fetch([chat EXCEPT
                             !.isTyping = TRUE,
                             !.disabled = TRUE,
                             !.view.msgs = Append(@, [role |-> "user",
                                                      sid |-> chat.currentSessionId]),
                             !.input = "",
                             !.view.typing = TRUE],
                          "chat", chat.currentSessionId, "user")
               ELSE chat
    /\ ev' = "sendMessage"
    /\ chatFrame

\* script.js:50, 331-338: the toast is closed, by its button or its timer
hideError ==
    /\ chat.toast
    /\ chat' = [chat EXCEPT !.toast = FALSE]
    /\ ev' = "hideError"
    /\ chatFrame

\* ------------------------------------------------------------------------
\* ECOMMERCE-WEBSITE (src/AKSHAT_YADAV/ECOMMERCE-WEBSITE/app.js)
\* ------------------------------------------------------------------------

\* the backend answers with up to MaxCategories categories and MaxItems items
MaxCategories == 3
MaxItems == 2

\* app.js:23: the page size of GET /items
size == 1000

\* the value of a property an object does not have
Undefined == "undefined"

\* a || b on strings and undefined: the empty string is falsy too
OrElse(a, b) == IF a \in {Undefined, ""} THEN b ELSE a

\* the categories of a response: named by name, by title only, or not at all
CategoryObjects ==
    { [name |-> "Books", category |-> Undefined, title |-> Undefined],
      [name |-> "Toys", category |-> Undefined, title |-> Undefined],
      [name |-> Undefined, category |-> Undefined, title |-> "Games"],
      [name |-> Undefined, category |-> Undefined, title |-> Undefined] }

\* the items of a response: their category is a string or is missing
ItemObjects ==
    { [name |-> "novel", category |-> "Books"],
      [name |-> "kite", category |-> "Toys"],
      [name |-> "gift", category |-> Undefined] }

\* the sequences over S of length at most n
RECURSIVE SeqsUpTo(_, _)
SeqsUpTo(S, n) ==
    IF n = 0 THEN { << >> }
    ELSE LET shorter == SeqsUpTo(S, n - 1)
         IN  shorter \cup { Append(q, x) : q \in shorter, x \in S }

\* app.js:48: the name a tab is made for
NameOf(cat) == OrElse(OrElse(cat.name, cat.category), cat.title)

\* assigning v to textContent: undefined gives the empty string
TextContent(v) == IF v = Undefined THEN "" ELSE v

\* app.js:90: the key an item is filed under (item.category?.name is
\* undefined for a string)
CategoryKey(item) == OrElse(item.category, "Uncategorized")

\* app.js:88-93 read at app.js:62: itemsByCategory[category] || []
ItemsByCategory(items, category) ==
    SelectSeq(items, LAMBDA item : CategoryKey(item) = category)

\* app.js:38-54: the buttons of #category-tabs; arg is what the button's
\* onclick passes to renderItems
renderCategoryTabs(categories) ==
    << [text |-> "All", active |-> TRUE, arg |-> "all"] >>
    \o [i \in 1..Len(categories) |->
          [text |-> TextContent(NameOf(categories[i])), active |-> FALSE,
           arg |-> NameOf(categories[i])]]

\* app.js:58: btn.classList.toggle('active', btn.textContent === category)
toggleActive(btn, category) ==
    [btn EXCEPT !.active = (btn.text = category)]

\* app.js:56-74
renderItems(s, category) ==
    [s EXCEPT !.tabs = [i \in 1..Len(s.tabs) |->
                           toggleActive(s.tabs[i], category)],
              !.grid = IF category = "all" THEN s.items
                       ELSE ItemsByCategory(s.items, category),
              !.rendered = << category >>]

\* app.js:76-83, 102: main has run up to its await; both fetches are sent
ShopStarted ==
    [pc |-> "awaiting", cats |-> << >>, all |-> << >>, page |-> 1,
     itemsDone |-> FALSE, categories |-> << >>, items |-> << >>,
     tabs |-> << >>, grid |-> << >>, rendered |-> << >>,
     loadingHidden |-> FALSE, gridHidden |-> TRUE]

\* the shop actions leave the other pages alone
shopFrame == UNCHANGED << shootVars, bird, calc, load, chat >>

\* app.js:15-18: GET /categories resolves with cats
categoriesFetched(cats) ==
    /\ shop.pc = "awaiting" /\ shop.cats = << >>
    /\ shop' = [shop EXCEPT !.cats = << cats >>]
    /\ ev' = "categoriesFetched"
    /\ shopFrame

\* app.js:25-33: one page of GET /items resolves with batch
itemsFetched(batch) ==
    /\ shop.pc = "awaiting" /\ ~shop.itemsDone
    /\ shop' = IF Len(batch) = 0
               THEN [shop EXCEPT !.itemsDone = TRUE]
               ELSE IF Len(batch) < size
               THEN [shop EXCEPT !.all = @ \o batch, !.itemsDone = TRUE]
               ELSE [shop EXCEPT !.all = @ \o batch, !.page = @ + 1]
    /\ ev' = "itemsFetched"
    /\ shopFrame

\* app.js:80-99: Promise.all resolved; main runs to its end
mainResumes ==
    /\ shop.pc = "awaiting" /\ shop.cats # << >> /\ shop.itemsDone
    /\ LET s1 == [shop EXCEPT !.categories = shop.cats[1],
                              !.items = shop.all]
           s2 == [s1 EXCEPT !.tabs = renderCategoryTabs(s1.categories)]
           s3 == renderItems(s2, "all")
       IN  shop' = [s3 EXCEPT !.pc = "done", !.loadingHidden = TRUE,
                              !.gridHidden = FALSE]
    /\ ev' = "main"
    /\ shopFrame

\* app.js:80: a fetch rejects; main ends at its await with the loading
\* message shown
shopFetchFails ==
    /\ shop.pc = "awaiting"
    /\ shop' = [shop EXCEPT !.pc = "failed"]
    /\ ev' = "shopFetchFails"
    /\ shopFrame

\* app.js:44, 51: the onclick of the i-th button
tabClick(i) ==
    /\ i \in 1..Len(shop.tabs)
    /\ shop' = renderItems(shop, shop.tabs[i].arg)
    /\ ev' = "tabClick"
    /\ shopFrame

\* ------------------------------------------------------------------------
\* Handlers of SHOOT-THE-TARGET
\* ------------------------------------------------------------------------

CanStartDrag_noShotLimit == ~(~allowShoot \/ gameOver)

\* game.js:164: pointerdown starts a drag
CanStartDrag == ~(~allowShoot \/ shotsTaken >= MAX_SHOTS \/ gameOver)

CanRelease_anyDragEnd == ~(dragEnd = NULL \/ ~allowShoot)

\* game.js:172: pointerup launches
CanRelease == ~(~isDragging \/ ~allowShoot)

\* both scripts loaded
\* SHOOT-THE-TARGET after its DOMContentLoaded handler ran (game.js:84-92,
\* 143, 159, 161-162)
ShootLoaded ==
    /\ canvas \in { [width |-> s[1], height |-> s[2]] : s \in CanvasSizes }
    /\ groundY = GroundYOf(canvas.height)
    /\ slingStart = SlingStartOf(canvas.height)
    /\ projectile = NULL
    /\ sinceShot = 0
    /\ allowShoot = TRUE
    /\ shotsTaken = 0
    /\ gameOver = FALSE
    /\ targetHit = FALSE
    /\ currentLevel = 0
    /\ hitCount = 0
    /\ isDragging = FALSE
    /\ dragEnd = NULL
    /\ resetBtn = "none"
    /\ ev = "init"
    /\ launches = 0
    /\ hits = << >>
    /\ touched = {}

Loaded ==
    /\ ShootLoaded
    /\ bird \in { birdLoaded(s) : s \in BirdCanvasSizes }
    /\ load = LoadComplete
    /\ chat = ChatConstructed
    /\ shop = ShopStarted

Init == Loaded /\ calc = [op |-> "none", applied |-> FALSE]

\* game.js:163-167
pointerdown(e) ==
    /\ ev' = "pointerdown"
    /\ IF CanStartDrag
       THEN /\ isDragging' = TRUE
            /\ dragEnd' = e
       ELSE UNCHANGED << isDragging, dragEnd >>
    /\ UNCHANGED << canvas, groundY, slingStart, projectile, sinceShot,
                    allowShoot, shotsTaken, gameOver, targetHit, currentLevel,
                    hitCount, resetBtn, launches, hits, touched, bird, calc,
                    load, chat, shop >>

\* game.js:168-170
pointermove(e) ==
    /\ ev' = "pointermove"
    /\ dragEnd' = IF isDragging THEN e ELSE dragEnd
    /\ UNCHANGED << canvas, groundY, slingStart, projectile, sinceShot,
                    allowShoot, shotsTaken, gameOver, targetHit, currentLevel,
                    hitCount, isDragging, resetBtn, launches, hits, touched,
                    bird, calc,
                    load, chat, shop >>

Launch_keepsShooting ==
    /\ isDragging' = FALSE
    /\ projectile' = [pos   |-> slingStart,
                      vel   |-> LaunchVelocity(dragEnd, slingStart),
                      trail |-> LaunchTrail(slingStart)]
    /\ sinceShot' = 0
    /\ allowShoot' = allowShoot
    /\ shotsTaken' = shotsTaken + 1
    /\ launches' = launches + 1

\* game.js:173-185: the accepted launch
Launch ==
    /\ isDragging' = FALSE
    /\ projectile' = [pos   |-> slingStart,
                      vel   |-> LaunchVelocity(dragEnd, slingStart),
                      trail |-> LaunchTrail(slingStart)]
    /\ sinceShot' = 0
    /\ allowShoot' = FALSE
    /\ shotsTaken' = shotsTaken + 1
    /\ launches' = launches + 1

\* game.js:171-186
pointerup ==
    /\ ev' = "pointerup"
    /\ IF CanRelease
       THEN Launch
       ELSE UNCHANGED << isDragging, projectile, sinceShot, allowShoot,
                         shotsTaken, launches >>
    /\ UNCHANGED << canvas, groundY, slingStart, gameOver, targetHit,
                    currentLevel, hitCount, dragEnd, resetBtn, hits, touched,
                    bird, calc,
                    load, chat, shop >>

ResetState_keepsHits ==
    /\ projectile' = NULL
    /\ shotsTaken' = 0
    /\ gameOver' = FALSE
    /\ targetHit' = FALSE
    /\ allowShoot' = TRUE
    /\ hitCount' = hitCount
    /\ resetBtn' = "none"
    /\ launches' = 0
    /\ hits' = << >>
    /\ touched' = {}

\* game.js:150-158
ResetState ==
    /\ projectile' = NULL
    /\ shotsTaken' = 0
    /\ gameOver' = FALSE
    /\ targetHit' = FALSE
    /\ allowShoot' = TRUE
    /\ hitCount' = 0
    /\ resetBtn' = "none"
    /\ launches' = 0
    /\ hits' = << >>
    /\ touched' = {}

\* game.js:136-142: the window is resized to s = (innerWidth, innerHeight)
resizeCanvas(s) ==
    /\ ev' = "resize"
    /\ canvas' = [width |-> s[1], height |-> s[2]]
    /\ groundY' = GroundYOf(s[2])
    /\ slingStart' = SlingStartOf(s[2])
    /\ UNCHANGED << projectile, sinceShot, allowShoot, shotsTaken, gameOver,
                    targetHit, currentLevel, hitCount, isDragging, dragEnd,
                    resetBtn, launches, hits, touched, bird, calc,
                    load, chat, shop >>

\* game.js:24: a click on the reset button, which is clickable while shown
resetLevel ==
    /\ resetBtn = "block"
    /\ ev' = "resetLevel"
    /\ ResetState
    /\ UNCHANGED << canvas, groundY, slingStart, sinceShot, currentLevel,
                    isDragging, dragEnd, bird, calc,
                    load, chat, shop >>

\* game.js:145-148: the level select fires "change" when another option
\* than the selected one is chosen
levelChange(i) ==
    /\ i # currentLevel
    /\ ev' = "levelChange"
    /\ currentLevel' = i
    /\ ResetState
    /\ UNCHANGED << canvas, groundY, slingStart, sinceShot, isDragging,
                    dragEnd, bird, calc,
                    load, chat, shop >>

\* game.js:322-326: one animation frame, update() then render()
loop ==
    /\ Simulated(projectile, gameOver) => Len(projectile.trail) < MaxTrail
    /\ sinceShot' = Saturate(sinceShot + FrameMs)
    /\ ev' = "update"
    /\ \E u \in { update(sinceShot + FrameMs) } :
           /\ projectile' = u.projectile
           /\ gameOver' = u.gameOver
           /\ targetHit' = u.targetHit
           /\ hitCount' = u.hitCount
           /\ allowShoot' = u.allowShoot
           /\ hits' = u.hits
           /\ touched' = u.touched
           /\ resetBtn' = render(u.gameOver, resetBtn)
    /\ UNCHANGED << canvas, groundY, slingStart, shotsTaken,
                    currentLevel, isDragging, dragEnd, launches, bird, calc,
                    load, chat, shop >>

Next ==
    \/ \E e \in DragPoints : pointerdown(e)
    \/ \E e \in DragPoints : pointermove(e)
    \/ pointerup
    \/ resetLevel
    \/ \E i \in LevelIndexes : levelChange(i)
    \/ \E s \in CanvasSizes : resizeCanvas(s)
    \/ loop

Spec == Init /\ [][Next]_vars

\* game.js:322-326: requestAnimationFrame keeps calling the loop, so a frame
\* that can run eventually runs; the fairness is asked only of the frames
\* that run while shooting is locked out
SpecFair == Spec /\ WF_vars(~allowShoot /\ loop)

\* the events and frames of ANGRY-BIRD-GAME
NextBird ==
    \/ \E e \in BirdPoints : birdPointerdown(e)
    \/ \E e \in BirdPoints : birdPointermove(e)
    \/ \E e \in BirdPoints : birdPointerup(e)
    \/ birdPointerleave
    \/ \E s \in BirdCanvasSizes : birdResizeCanvas(s)
    \/ gameLoop

SpecBird == Init /\ [][NextBird]_vars

\* game.js:224: requestAnimationFrame keeps calling gameLoop, so the frames
\* of a ball in flight keep coming
SpecBirdFair == SpecBird /\ WF_vars(gameLoop)

\* the values ev takes in ANGRY-BIRD-GAME
BirdEvents == { "birdResize", "birdPointerdown", "birdPointermove",
                "birdPointerup", "birdPointerleave", "birdUpdate" }

\* The two games are two pages: the events and frames of a run go to the one
\* that is open, the other stays as it was loaded
NextEither ==
    \/ ev \notin BirdEvents /\ Next
    \/ ev \in {"init"} \cup BirdEvents /\ NextBird

SpecEither == Init /\ [][NextEither]_vars

\* ANGRY-BIRD-GAME from the evaluation of its script on
InitLoad ==
    /\ ShootLoaded
    /\ bird \in { birdDeclared(s) : s \in {<<300, 150>>} }
    /\ load = LoadStarted
    /\ chat = ChatConstructed
    /\ shop = ShopStarted
    /\ calc = [op |-> "none", applied |-> FALSE]

NextLoad ==
    \/ \E s \in LoadSizes : scriptStep(s)
    \/ \E s \in LoadSizes : windowResize(s)
    \/ \E t \in BirdListeners \ {"resize"} : \E e \in BirdPoints :
          canvasPointer(t, e)

SpecBirdLoad == InitLoad /\ [][NextLoad]_vars

\* the chat page opened against a backend that holds up to MaxStored sessions
InitChat ==
    /\ ShootLoaded /\ canvas.width = 1000
    /\ bird \in { birdLoaded(s) : s \in BirdCanvasSizes }
    /\ load = LoadComplete
    /\ calc = [op |-> "none", applied |-> FALSE]
    /\ chat \in { ChatStarted(k) : k \in 0..MaxStored }
    /\ shop = ShopStarted

NextChat ==
    \/ serve
    \/ respond
    \/ fetchFails
    \/ newChatClick
    \/ sessionClick
    \/ typeMessage
    \/ sendMessage
    \/ hideError

SpecChat == InitChat /\ [][NextChat]_vars

\* the shop page opened
InitShop ==
    /\ ShootLoaded /\ canvas.width = 1000
    /\ bird \in { birdLoaded(s) : s \in BirdCanvasSizes }
    /\ load = LoadComplete
    /\ calc = [op |-> "none", applied |-> FALSE]
    /\ chat = ChatConstructed
    /\ shop = ShopStarted

NextShop ==
    \/ \E cats \in SeqsUpTo(CategoryObjects, MaxCategories) :
          categoriesFetched(cats)
    \/ \E batch \in SeqsUpTo(ItemObjects, MaxItems) : itemsFetched(batch)
    \/ mainResumes
    \/ shopFetchFails
    \/ \E i \in 1..(MaxCategories + 1) : tabClick(i)

SpecShop == InitShop /\ [][NextShop]_vars

\* ------------------------------------------------------------------------
\* The functions of both scripts applied to inputs of their own
\* ------------------------------------------------------------------------

\* circle centres lie on the grid GridMin..GridMax in both coordinates, which
\* reaches GridPad below the origin
GridPad == 5
GridMin == -GridPad
GridMax == 8
\* radii of the circles
Radii == { 1, 2, 5 }
\* corners and sizes of the rectangles
RectCorners == { 0, 1 }
RectSizes == { 1, 2, 3 }

\* velocity components (twentieths of a pixel per tick) of the bounces
BounceSpeeds == { -900, -751, -333, -8, -7, -2, -1, 0, 1, 2, 3, 7, 9, 334,
                  750, 900 }
\* drag ends (pixels) of the launches; (150,465) and (120,465) are the
\* launch anchors of the two games
LaunchXs == { 0, 60, 120, 150, 240, 400 }
LaunchYs == { 300, 465, 525, 595 }
\* vectors to normalize
NormalizeInputs == { Vector(0, 0), Vector(3, 4), Vector(-5, 0), Vector(0, 1),
                     Vector(-6, -8) }

\* the applications to make: a function and its arguments
CalcInputs ==
    { [op |-> "circleVsAABB", applied |-> FALSE,
       c |-> [x |-> x, y |-> y, r |-> r],
       rect |-> [x |-> rx, y |-> ry, w |-> w, h |-> h]] :
         x \in GridMin..GridMax, y \in GridMin..GridMax, r \in Radii,
         rx \in RectCorners, ry \in RectCorners,
         w \in RectSizes, h \in RectSizes }
    \cup { [op |-> "bounce", applied |-> FALSE, kind |-> kind,
            vel |-> Vector(vx, vy)] :
              vx \in BounceSpeeds, vy \in BounceSpeeds,
              kind \in {"ground", "floor", "wall"} }
    \cup { [op |-> "launch", applied |-> FALSE, game |-> game,
            from |-> Vector(Px(x), Px(y))] :
              game \in {"shoot", "bird"}, x \in LaunchXs, y \in LaunchYs }
    \cup { [op |-> "normalize", applied |-> FALSE, v |-> v] :
              v \in NormalizeInputs }

\* circleVsAABB of both scripts on one circle and one rectangle
calcCircle ==
    /\ calc.op = "circleVsAABB" /\ ~calc.applied
    /\ calc' = [op |-> calc.op, applied |-> TRUE, c |-> calc.c, rect |-> calc.rect,
                shoot |-> circleVsAABB(calc.c, calc.rect),
                bird  |-> birdCircleVsAABB(calc.c, calc.rect)]
    /\ UNCHANGED << shootVars, ev, bird, load, chat, shop >>

\* the bounce response of the ground, of a floor wall or of a non-floor wall
\* on a projectile with velocity calc.vel
calcBounce ==
    /\ calc.op = "bounce" /\ ~calc.applied
    /\ LET p == [pos |-> slingStart, vel |-> calc.vel, trail |-> << >>]
           q == CASE calc.kind = "ground" -> GroundResponse(p, groundY)
                  [] calc.kind = "floor"  -> WallResponse(p, Rect(0, 0, 10, 10, TRUE))
                  [] calc.kind = "wall"   -> WallResponse(p, Rect(0, 0, 10, 10, FALSE))
       IN  calc' = [op |-> calc.op, applied |-> TRUE, kind |-> calc.kind,
                    vel |-> calc.vel, out |-> q.vel]
    /\ UNCHANGED << shootVars, ev, bird, load, chat, shop >>

\* the launch velocity of a drag released at calc.from, in either game
calcLaunch ==
    /\ calc.op = "launch" /\ ~calc.applied
    /\ LET to == IF calc.game = "shoot" THEN slingStart
                 ELSE bird.projectile.pos
       IN  calc' = [op |-> calc.op, applied |-> TRUE, game |-> calc.game,
                    from |-> calc.from, to |-> to,
                    out |-> IF calc.game = "shoot"
                            THEN LaunchVelocity(calc.from, to)
                            ELSE birdLaunchVelocity(calc.from, to)]
    /\ UNCHANGED << shootVars, ev, bird, load, chat, shop >>

\* v.normalize(), the components of the result in thousandths
calcNormalize ==
    /\ calc.op = "normalize" /\ ~calc.applied
    /\ calc' = [op |-> calc.op, applied |-> TRUE, v |-> calc.v,
                out |-> NormalizeScale(calc.v, VecLength(calc.v), 1000, 1)]
    /\ UNCHANGED << shootVars, ev, bird, load, chat, shop >>

NextCalc ==
    \/ calcCircle
    \/ calcBounce
    \/ calcLaunch
    \/ calcNormalize

\* the scripts loaded, one application to make
InitCalc == Loaded /\ calc \in CalcInputs

SpecCalc == InitCalc /\ [][NextCalc]_vars

\* ------------------------------------------------------------------------
\* Properties of SHOOT-THE-TARGET
\* ------------------------------------------------------------------------

\* a step of resetLevel, by the reset button or a level change
ResetStep == ev' \in {"resetLevel", "levelChange"}

\* a step of pointerup that launched
LaunchStep == ev' = "pointerup" /\ launches' = launches + 1

\* the responses of the last update that changed the projectile or the round
Outcomes == SelectSeq(hits, LAMBDA h : h[1] \in {"ground", "wall", "bomb", "target"})

\* C1: while gameOver is true no pointerup creates a projectile or
\* increments shotsTaken, also when the drag began before the round ended.
C1_NoLaunchWhileOver ==
    [][(gameOver /\ ev' = "pointerup")
        => (shotsTaken' = shotsTaken /\ projectile' = projectile)]_vars

\* C2: once MAX_SHOTS launches are spent without the winning hit and no
\* projectile remains, the round is over and lost.
C2_ExhaustedShotsLose ==
    (shotsTaken = MAX_SHOTS /\ projectile = NULL /\ hitCount < HITS_TO_WIN)
        => (gameOver /\ ~targetHit)

\* C3: shotsTaken never exceeds MAX_SHOTS, and no step launches when
\* shotsTaken = MAX_SHOTS.
C3_ShotLimit ==
    /\ [](shotsTaken <= MAX_SHOTS)
    /\ [][shotsTaken = MAX_SHOTS => ~LaunchStep /\ shotsTaken' <= shotsTaken]_vars

\* a pointerdown at MAX_SHOTS, with shooting allowed and the round open,
\* started no drag
C3_Witness ==
    /\ shotsTaken = MAX_SHOTS /\ launches = MAX_SHOTS
    /\ ev = "pointerdown" /\ allowShoot /\ ~gameOver /\ ~isDragging

\* C4: an accepted launch (pointerup while dragging and allowed) adds exactly
\* 1 to shotsTaken, clears allowShoot, records the launch time as the current
\* time (now - lastShotTime = 0) and puts the new projectile at slingStart;
\* shotsTaken is the number of launches accepted since the last reset.
C4_LaunchEffects ==
    /\ [][(ev' = "pointerup" /\ isDragging /\ allowShoot)
           => /\ shotsTaken' = shotsTaken + 1
              /\ allowShoot' = FALSE
              /\ sinceShot' = 0
              /\ projectile' # NULL
              /\ projectile'.pos = slingStart]_vars
    /\ [](shotsTaken = launches)

\* two launches were accepted since the last reset, the second just now
C4_Witness ==
    /\ ev = "pointerup" /\ launches = 2 /\ shotsTaken = 2
    /\ projectile # NULL /\ projectile.pos = slingStart
    /\ sinceShot = 0 /\ ~allowShoot

\* C5: a rejected pointerdown (shooting not allowed, shots spent or round
\* over) and a rejected pointerup (not dragging or shooting not allowed)
\* change none of projectile, shotsTaken, hitCount, gameOver, targetHit,
\* allowShoot and lastShotTime.
C5_RejectionIsNoOp ==
    [][(\/ ev' = "pointerdown" /\ (~allowShoot \/ shotsTaken >= MAX_SHOTS \/ gameOver)
        \/ ev' = "pointerup" /\ (~isDragging \/ ~allowShoot))
        => UNCHANGED << projectile, shotsTaken, hitCount, gameOver, targetHit,
                        allowShoot, sinceShot >>]_vars

\* a pointerup was rejected while a projectile flew: an accepted one would
\* have cleared allowShoot and put the projectile back at slingStart
C5_Witness ==
    /\ ev = "pointerup" /\ ~isDragging /\ allowShoot
    /\ projectile # NULL /\ projectile.pos # slingStart

\* C6: hitCount never exceeds HITS_TO_WIN, targetHit holds exactly when
\* hitCount = HITS_TO_WIN, and targetHit implies gameOver.
C6_WinAtThreshold ==
    /\ hitCount <= HITS_TO_WIN
    /\ targetHit <=> (hitCount = HITS_TO_WIN)
    /\ targetHit => gameOver

\* the third hit was scored by the last update
C6_Witness ==
    /\ ev = "update" /\ hitCount = HITS_TO_WIN /\ targetHit
    /\ hits # << >> /\ hits[Len(hits)] = <<"target", 0>>

\* C7: once gameOver is true, no step other than a reset changes gameOver,
\* targetHit or hitCount, so a loss never becomes a win nor a win a loss; and
\* hitCount = HITS_TO_WIN is a win whatever shotsTaken is.
C7_OutcomeStable ==
    /\ [][(gameOver /\ ~ResetStep)
           => UNCHANGED << gameOver, targetHit, hitCount >>]_vars
    /\ [](hitCount = HITS_TO_WIN => gameOver /\ targetHit)

\* an update ran in a lost round while a projectile was present
C7_Witness ==
    /\ ev = "update" /\ gameOver /\ ~targetHit /\ projectile # NULL

\* C8: a tick whose moved projectile overlaps a bomb ends the round as a
\* loss and does nothing else, whatever else it overlaps: gameOver becomes
\* true, targetHit stays false, the projectile is removed, hitCount is kept.
C8_BombTakesPrecedence ==
    [][(/\ ev' = "update"
        /\ Simulated(projectile, gameOver)
        /\ BombsHit(Moved(projectile, groundY), Level(currentLevel)) # {})
        => /\ gameOver' /\ ~targetHit'
           /\ projectile' = NULL
           /\ hitCount' = hitCount
           /\ Len(Outcomes') = Len(SelectSeq(hits', LAMBDA h : h[1] \in {"ground", "bomb"}))]_vars

\* the last update ended the round on a bomb while the projectile also
\* overlapped a wall
C8_Witness ==
    /\ ev = "update" /\ gameOver /\ ~targetHit /\ projectile = NULL
    /\ \E b \in touched : b[1] = "bomb"
    /\ \E w \in touched : w[1] = "wall"

\* C9: one update applies at most one response among ground bounce, wall
\* deflections, bomb and target hit.
C9_OneOutcomePerTick == Len(Outcomes) <= 1

\* C10: a tick whose projectile overlaps no bomb and overlaps the target,
\* as moved or as the walls left it, adds exactly 1 to hitCount and removes
\* the projectile; the round ends, as a win, exactly when the new hitCount
\* reaches HITS_TO_WIN, and stays open otherwise.
C10_TargetHit ==
    [][(/\ ev' = "update"
        /\ Simulated(projectile, gameOver)
        /\ BombsHit(Moved(projectile, groundY), Level(currentLevel)) = {}
        /\ \/ TargetHit(Moved(projectile, groundY), Level(currentLevel))
           \/ TargetHit(AtTargetTest(projectile, groundY, Level(currentLevel)),
                        Level(currentLevel)))
        => /\ hitCount' = hitCount + 1
           /\ projectile' = NULL
           /\ gameOver' <=> (hitCount + 1 >= HITS_TO_WIN)
           /\ targetHit' <=> (hitCount + 1 >= HITS_TO_WIN)]_vars

\* the last update scored a hit that did not end the round, the moved
\* projectile overlapping the target
C10_Witness ==
    /\ ev = "update" /\ hitCount = 1 /\ ~gameOver /\ projectile = NULL
    /\ hits # << >> /\ hits[Len(hits)] = <<"target", 0>>
    /\ <<"target", 0>> \in touched

\* C11: with no reset in between, allowShoot is never true while a
\* projectile with speed >= 0.1 exists and no more than LOCKOUT_MS have
\* passed since the last accepted launch.
C11_NoShootInFlight ==
    (/\ projectile # NULL
     /\ ~SpeedBelowEps(projectile.vel)
     /\ sinceShot <= LOCKOUT_MS)
        => ~allowShoot

\* C12: an update that runs more than LOCKOUT_MS after the last accepted
\* launch sets allowShoot to true, whatever the projectile does; and with
\* frames that keep coming, allowShoot becomes true again after every launch.
C12_BoundedWait ==
    /\ [][(ev' = "update" /\ sinceShot + FrameMs > LOCKOUT_MS)
           => allowShoot']_vars
    /\ (~allowShoot ~> allowShoot)

\* the first update past the lockout re-enabled shooting while the launched
\* projectile, four frames old, was still flying
C12_Witness ==
    /\ ev = "update" /\ allowShoot /\ sinceShot > LOCKOUT_MS
    /\ projectile # NULL /\ ~SpeedBelowEps(projectile.vel)
    /\ projectile.vel.x # 0 /\ ~gameOver
    /\ Len(projectile.trail) = 1 + (LOCKOUT_MS \div FrameMs) + 1

\* C13: resetLevel, by the reset button or a level change, leaves
\* shotsTaken = 0, hitCount = 0, gameOver and targetHit false, allowShoot
\* true and no projectile; run on a state that already is like that, it
\* changes none of them.
C13_ResetLevel ==
    /\ [][ResetStep
           => /\ shotsTaken' = 0 /\ hitCount' = 0
              /\ ~gameOver' /\ ~targetHit'
              /\ allowShoot' /\ projectile' = NULL]_vars
    /\ [][(/\ ResetStep
           /\ shotsTaken = 0 /\ hitCount = 0 /\ ~gameOver /\ ~targetHit
           /\ allowShoot /\ projectile = NULL)
           => UNCHANGED << shotsTaken, hitCount, gameOver, targetHit,
                           allowShoot, projectile, resetBtn, sinceShot,
                           isDragging, dragEnd >>]_vars

\* the reset button was clicked after a won round
C13_Witness ==
    /\ ev = "resetLevel" /\ shotsTaken = 0 /\ hitCount = 0
    /\ ~gameOver /\ ~targetHit /\ allowShoot /\ projectile = NULL
    /\ resetBtn = "none"

\* the projectile's position when the tick that update runs on p is over:
\* as moved if a bomb ends the tick, as the walls left it otherwise
TickEnd(p) ==
    IF BombsHit(Moved(p, groundY), Level(currentLevel)) # {}
    THEN Moved(p, groundY).pos
    ELSE AtTargetTest(p, groundY, Level(currentLevel)).pos

\* pos is outside the world: left or right of it, or below its height
Outside(pos) ==
    pos.x < 0 \/ pos.x > Px(canvas.width) \/ pos.y > Px(canvas.height)

\* C19: a tick that leaves the projectile outside the world removes it and
\* changes none of hitCount, gameOver, targetHit and shotsTaken.
C19_OutOfBoundsNoScore ==
    [][(/\ ev' = "update"
        /\ Simulated(projectile, gameOver)
        /\ Outside(TickEnd(projectile)))
        => /\ projectile' = NULL
           /\ UNCHANGED << hitCount, gameOver, targetHit, shotsTaken >>]_vars

\* C19, amended: a tick that leaves the projectile outside the world removes
\* it and keeps shotsTaken; it changes none of hitCount, gameOver and
\* targetHit unless the projectile overlaps a bomb or the target in that
\* tick, which are tested before the bounds.
C19_OutOfBoundsRemoved ==
    [][(/\ ev' = "update"
        /\ Simulated(projectile, gameOver)
        /\ Outside(TickEnd(projectile)))
        => /\ projectile' = NULL
           /\ shotsTaken' = shotsTaken
           /\ (/\ BombsHit(Moved(projectile, groundY), Level(currentLevel)) = {}
               /\ ~TargetHit(AtTargetTest(projectile, groundY, Level(currentLevel)),
                             Level(currentLevel)))
                => UNCHANGED << hitCount, gameOver, targetHit >>]_vars

\* the last update removed a projectile that had left the world, touching
\* no shape and without ending the round
C19_Witness ==
    /\ ev = "update" /\ projectile = NULL /\ ~gameOver /\ launches > 0
    /\ hits # << >> /\ hits[Len(hits)] = <<"out", 0>>
    /\ touched = {}

\* C20: a tick whose only response is that of one non-floor wall reverses
\* the horizontal velocity and leaves the projectile on the side it came
\* from: at w.x - BALL_RADIUS if it was moving right, at
\* w.x + w.w + BALL_RADIUS if it was moving left.
C20_NoTunnelling ==
    [][(/\ ev' = "update"
        /\ Simulated(projectile, gameOver)
        /\ Len(hits') = 1 /\ hits'[1][1] = "wall"
        /\ ~Level(currentLevel).walls[hits'[1][2]].isFloor)
        => LET w == Level(currentLevel).walls[hits'[1][2]]
           IN  /\ projectile'.vel.x = -projectile.vel.x
               /\ projectile.vel.x > 0 => projectile'.pos.x = w.x - BALL_RADIUS
               /\ projectile.vel.x < 0
                    => projectile'.pos.x = w.x + w.w + BALL_RADIUS]_vars

\* the walls of the current level whose floor response the last update applied
FloorsHit(hs) ==
    { hs[k][2] : k \in { j \in 1..Len(hs) :
        hs[j][1] = "wall" /\ Level(currentLevel).walls[hs[j][2]].isFloor } }

Sign(a) == IF a > 0 THEN 1 ELSE IF a < 0 THEN -1 ELSE 0

\* C21: a tick that applies the response of a floor obstacle w and keeps the
\* projectile leaves it on top of w (pos.y = w.y - BALL_RADIUS), moving
\* upward or not at all vertically (vel.y <= 0), with the sign of its
\* horizontal velocity unchanged.
C21_FloorBounceUpward ==
    [][(/\ ev' = "update"
        /\ Simulated(projectile, gameOver)
        /\ projectile' # NULL)
        => \A i \in FloorsHit(hits') :
              /\ projectile'.pos.y = Level(currentLevel).walls[i].y - BALL_RADIUS
              /\ projectile'.vel.y <= 0
              /\ Sign(projectile'.vel.x) = Sign(projectile.vel.x)]_vars

\* ------------------------------------------------------------------------
\* Properties of ANGRY-BIRD-GAME
\* ------------------------------------------------------------------------

\* C18: the trail never holds more than TRAIL_MAX positions, and a tick
\* that keeps the ball flying appends the new position at the end, dropping
\* the oldest position and no other when the trail was full.
C18_TrailBoundedFifo ==
    /\ [](Len(bird.trail) <= TRAIL_MAX)
    /\ [][(ev' = "birdUpdate" /\ ~AtRest(bird.projectile) /\ bird'.trail # << >>)
           => /\ bird'.trail[Len(bird'.trail)] = bird'.projectile.pos
              /\ IF Len(bird.trail) < TRAIL_MAX
                 THEN /\ Len(bird'.trail) = Len(bird.trail) + 1
                      /\ \A i \in 1..Len(bird.trail) :
                            bird'.trail[i] = bird.trail[i]
                 ELSE /\ Len(bird'.trail) = TRAIL_MAX
                      /\ \A i \in 1..(TRAIL_MAX - 1) :
                            bird'.trail[i] = bird.trail[i + 1]]_vars

\* a flight has lasted longer than TRAIL_MAX ticks: the trail is full, ends
\* with the ball's position and starts, the launch point dropped, with two
\* positions of the ascent
C18_Witness ==
    /\ ev = "birdUpdate" /\ ~AtRest(bird.projectile)
    /\ Len(bird.trail) = TRAIL_MAX
    /\ bird.trail[TRAIL_MAX] = bird.projectile.pos
    /\ bird.trail[1] # bird.dragStart
    /\ bird.trail[1].y > bird.trail[2].y

\* the ball rests on the launch pad and no trail is left
OnPad == bird.projectile = birdRest(bird.groundY) /\ bird.trail = << >>

\* C25: a ball with a velocity is eventually back at rest on the launch pad
\* with an empty trail; each tick of its flight moves it or resets it; no
\* drag is in progress or starts while it flies.
C25_FlightEnds ==
    /\ ~AtRest(bird.projectile) ~> OnPad
    /\ [][(ev' = "birdUpdate" /\ ~AtRest(bird.projectile))
           => (bird'.projectile.pos # bird.projectile.pos \/ OnPad')]_vars
    /\ [][~AtRest(bird.projectile) => ~bird'.isDragging]_vars
    /\ [](~AtRest(bird.projectile) => ~bird.isDragging)

\* a ball in flight whose next tick takes it back to the launch pad
C25_Witness ==
    /\ ev = "birdUpdate" /\ ~AtRest(bird.projectile)
    /\ Len(bird.trail) > 10
    /\ birdUpdated(bird).projectile = birdRest(bird.groundY)
    /\ birdUpdated(bird).trail = << >>

\* C24: the script's evaluation never fails; once the call of resizeCanvas at
\* load (game.js:38) is over, the projectile rests on the pad with an empty
\* trail; once the evaluation is over, every listener is registered, the
\* game loop runs and the projectile is not null.
C24_LoadCompletes ==
    /\ load.pc # "failed" /\ load.error = "none"
    /\ load.pc = "classVector"
         => /\ bird.projectile = birdRest(bird.groundY)
            /\ bird.trail = << >>
    /\ Dispatching
         => /\ load.listeners = BirdListeners
            /\ load.looping
            /\ bird.projectile # NULL

\* ------------------------------------------------------------------------
\* Properties of both games
\* ------------------------------------------------------------------------

\* v is u with GRAVITY added to its vertical component
Accelerated(u, v) == v.x = u.x /\ v.y = u.y + GRAVITY

\* C22: in both games a tick with no collision and no removal takes the
\* velocity to (vel.x, vel.y + GRAVITY) and the position to the old position
\* plus the NEW velocity.
C22_SemiImplicitEuler ==
    /\ [][(/\ ev' = "update"
            /\ Simulated(projectile, gameOver)
            /\ projectile' # NULL /\ hits' = << >>)
            => /\ Accelerated(projectile.vel, projectile'.vel)
               /\ projectile'.pos = VecAdd(projectile.pos, projectile'.vel)]_vars
    /\ [][(/\ ev' = "birdUpdate"
            /\ ~AtRest(bird.projectile)
            /\ bird'.trail # << >>)
            => /\ Accelerated(bird.projectile.vel, bird'.projectile.vel)
               /\ bird'.projectile.pos
                    = VecAdd(bird.projectile.pos, bird'.projectile.vel)]_vars

\* a bird in free flight: three ticks after the launch point, past the top
\* of its arc
C22_Witness ==
    /\ ev = "birdUpdate" /\ ~AtRest(bird.projectile)
    /\ Len(bird.trail) >= 4
    /\ bird.projectile.vel.y > 0

\* an accepted launch of SHOOT-THE-TARGET, of ANGRY-BIRD-GAME
ShootLaunched == ev' = "pointerup" /\ launches' = launches + 1
BirdLaunched == ev' = "birdPointerup" /\ bird.isDragging

\* C23: in both games the projectile an accepted launch creates has a trail
\* with no entries.
C23_LaunchTrailEmpty ==
    /\ [][ShootLaunched => projectile'.trail = << >>]_vars
    /\ [][BirdLaunched => bird'.trail = << >>]_vars

\* C23, amended: in both games the trail at the moment of launch holds
\* exactly one entry, the launch point, which is the projectile's position.
C23_LaunchTrailIsLaunchPoint ==
    /\ [][ShootLaunched => /\ projectile'.trail = << slingStart >>
                            /\ projectile'.pos = slingStart]_vars
    /\ [][BirdLaunched => /\ bird'.trail = << bird.dragStart >>
                           /\ bird'.projectile.pos = bird.dragStart]_vars

\* a bird was just launched with a velocity
C23_Witness ==
    /\ ev = "birdPointerup" /\ ~AtRest(bird.projectile)
    /\ Len(bird.trail) = 1 /\ bird.trail[1] = bird.projectile.pos

\* ------------------------------------------------------------------------
\* Properties of CHAT-APP
\* ------------------------------------------------------------------------

\* the requests of a kind that are outstanding in c
Outstanding(c, kind) == { q \in c.requests : q.kind = kind }

\* C26: at most one POST /chat is outstanding at any time, and a call of
\* sendMessage made while a send has not completed, with an empty message or
\* with no current session sends no request and displays no message.
C26_OneSendAtATime ==
    /\ [](Cardinality(Outstanding(chat, "chat")) <= 1)
    /\ [][(/\ ev' = "sendMessage"
            /\ (chat.isTyping \/ chat.input = ""
                    \/ chat.currentSessionId = NoSession))
            => /\ chat'.requests = chat.requests
               /\ chat'.view = chat.view]_vars

\* sendMessage was called with a message while the reply to the last one
\* is awaited
C26_Witness ==
    /\ ev = "sendMessage" /\ chat.isTyping /\ chat.input # ""
    /\ Cardinality(Outstanding(chat, "chat")) = 1

\* C27: the step that ends a send, by a response or by a failure, leaves
\* isTyping false and the input and send button enabled; a failure also
\* leaves no typing indicator and shows the error toast; isTyping is set
\* only while a send is outstanding, so no ended send blocks the next.
C27_SendAlwaysEnds ==
    /\ [][(Outstanding(chat, "chat") # {} /\ Outstanding(chat', "chat") = {})
            => /\ ~chat'.isTyping
               /\ ~chat'.disabled
               /\ ev' = "fetchFails" => (~chat'.view.typing /\ chat'.toast)]_vars
    /\ [](chat.isTyping <=> Outstanding(chat, "chat") # {})

\* a send has failed: its message is the last one displayed, the toast is
\* shown and the next send is possible
C27_Witness ==
    /\ ev = "fetchFails" /\ chat.toast
    /\ ~chat.isTyping /\ ~chat.disabled /\ ~chat.view.typing
    /\ chat.view.msgs # << >>
    /\ chat.view.msgs[Len(chat.view.msgs)].role = "user"

\* C28: the reply to a POST /chat that arrives when the session it was sent
\* for is no longer the current one is not appended to the messages
\* displayed.
C28_ReplyInOwnSession ==
    [][(/\ ev' = "respond"
        /\ Outstanding(chat, "chat") # {} /\ Outstanding(chat', "chat") = {}
        /\ \E q \in Outstanding(chat, "chat") : q.sid # chat.currentSessionId)
        => chat'.view.msgs = chat.view.msgs]_vars

\* C29: once a history response has been rendered and no history request is
\* pending any more, the history displayed is the one of currentSessionId.
C29_HistoryOfCurrent ==
    [][(/\ ev' = "respond"
        /\ Outstanding(chat, "history") # {}
        /\ Outstanding(chat', "history") = {})
        => chat'.shown = chat'.currentSessionId]_vars

\* the session ids of the sidebar
Listed(c) == { c.sessions[i] : i \in 1..Len(c.sessions) }

\* C30: currentSessionId, when it is not null, is one of the sessions listed
\* in the sidebar, and a failed createNewSession changes neither.
C30_CurrentIsListed ==
    /\ [](chat.currentSessionId # NoSession
            => chat.currentSessionId \in Listed(chat))
    /\ [][(/\ ev' = "fetchFails"
            /\ Outstanding(chat', "create") # Outstanding(chat, "create"))
            => /\ chat'.currentSessionId = chat.currentSessionId
               /\ chat'.sessions = chat.sessions]_vars

\* ------------------------------------------------------------------------
\* Properties of ECOMMERCE-WEBSITE
\* ------------------------------------------------------------------------

\* the buttons of #category-tabs that carry the class active
ActiveTabs(s) == { i \in 1..Len(s.tabs) : s.tabs[i].active }

\* C31: after renderItems(c), for the 'All' tab rendered at start-up as for
\* a clicked tab, exactly one button of #category-tabs is active, and it is
\* the button that renders c
C31_ActiveTabIsRendered ==
    shop.rendered # << >> =>
        \E i \in 1..Len(shop.tabs) :
            /\ ActiveTabs(shop) = {i}
            /\ shop.tabs[i].arg = shop.rendered[1]

\* ------------------------------------------------------------------------
\* Properties of the functions
\* ------------------------------------------------------------------------

\* the squared distance from the centre of c to the point (px, py)
DistSq(c, px, py) == (c.x - px) * (c.x - px) + (c.y - py) * (c.y - py)

\* the squared distance from the centre of c to the nearest point of rect;
\* with integer coordinates the nearest point is a grid point of rect
NearestDistSq(c, rect) ==
    LET ds == { DistSq(c, px, py) : px \in rect.x .. (rect.x + rect.w),
                                    py \in rect.y .. (rect.y + rect.h) }
    IN  CHOOSE d \in ds : \A e \in ds : d <= e

\* C14: circleVsAABB is true exactly when the squared distance from the
\* circle's centre to the nearest point of the rectangle is at most r * r,
\* and the functions of the two scripts agree.
C14_CollisionExact ==
    (calc.op = "circleVsAABB" /\ calc.applied)
        => /\ calc.shoot <=> (NearestDistSq(calc.c, calc.rect) <= calc.c.r * calc.c.r)
           /\ calc.bird <=> calc.shoot

\* a circle that touches a corner of the rectangle from outside, at
\* distance exactly r, was found to intersect
C14_Witness ==
    /\ calc.op = "circleVsAABB" /\ calc.applied /\ calc.shoot /\ calc.bird
    /\ NearestDistSq(calc.c, calc.rect) = calc.c.r * calc.c.r
    /\ calc.c.x > calc.rect.x + calc.rect.w
    /\ calc.c.y > calc.rect.y + calc.rect.h

\* C15: the bounce response of the ground, of a floor wall and of a
\* non-floor wall leaves the squared speed no greater than it was.
C15_BounceLosesSpeed ==
    (calc.op = "bounce" /\ calc.applied)
        => calc.out.x * calc.out.x + calc.out.y * calc.out.y
             <= calc.vel.x * calc.vel.x + calc.vel.y * calc.vel.y

\* a fast oblique projectile bounced off a non-floor wall
C15_Witness ==
    /\ calc.op = "bounce" /\ calc.applied /\ calc.kind = "wall"
    /\ calc.vel = Vector(750, 334)
    /\ calc.out.x = -750 /\ calc.out.y < 0

C17_NormalizeZero ==
    /\ (calc.op \in {"launch", "normalize"} /\ calc.applied)
         => "nan" \notin DOMAIN calc.out
    /\ (calc.op = "normalize" /\ calc.applied /\ calc.v = Vector(0, 0))
         => calc.out = calc.v
    /\ (calc.op = "launch" /\ calc.applied /\ calc.from = calc.to)
         => calc.out = Vector(0, 0)

\* a drag of length zero was released in SHOOT-THE-TARGET
C17_Witness ==
    /\ calc.op = "launch" /\ calc.applied /\ calc.game = "shoot"
    /\ calc.from = slingStart /\ calc.out = Vector(0, 0)

====
